---- MODULE Spec2Model ----
(***************************************************************************)
(* AsyncLLMPool of src/utils/async_llm_pool.py: the response cache, the    *)
(* sliding-window rate gate, the pool semaphore, the retry loop and the    *)
(* statistics, as a state machine whose steps are the stretches of         *)
(* call_llm_async that the asyncio event loop runs without suspension.     *)
(* Spec is the pool with calls of their own; CancelSpec adds cancellation  *)
(* of a call's task, ConfigSpec the constructor arguments the spec calls   *)
(* invalid, and BatchSpec batch_call_llm_async.  CredentialSpec, RetrySpec,*)
(* TtlSpec, CacheSizeSpec and NoRetrySpec are Spec with other pools;       *)
(* KeySpec applies _get_cache_key to requests; LiveSpec has calls and      *)
(* batches on one pool under fairness.                                     *)
(***************************************************************************)
EXTENDS Integers, Sequences, FiniteSets, TLC

\* ---------------------------------------------------------------- bounds
\* Number of call_llm_async invocations issued in one behaviour.
NumCalls == 3
\* Last value of time.time() of one behaviour, in seconds.
MaxTime == 60
\* Seconds by which one clock step advances time.time().
TickSteps == {30}
\* Fingerprints (values of _get_cache_key) the calls draw from, in the order
\* in which the calls first use them.
KeyOrder == <<"k1", "k2", "k3">>
Keys == {KeyOrder[i] : i \in 1..Len(KeyOrder)}
\* tokens_used values the transport may report.
Tokens == {1000}
\* Constructor arguments of the pools that are checked.
Configs ==
    { [max_connections |-> 1, cache_size |-> 2, cache_ttl |-> 30,
       rate_limit |-> 2, max_retries |-> 2],
      [max_connections |-> 2, cache_size |-> 1, cache_ttl |-> 30,
       rate_limit |-> 1, max_retries |-> 1] }

\* Constructor arguments the constructor or the first call rejects.
BadConfigs ==
    { [max_connections |-> 1, cache_size |-> 2, cache_ttl |-> 30,
       rate_limit |-> 0, max_retries |-> 2],
      [max_connections |-> 1, cache_size |-> 2, cache_ttl |-> 30,
       rate_limit |-> -1, max_retries |-> 2] }
\* Number of batch_call_llm_async invocations issued in one behaviour.
NumBatches == 2
\* Values of the max_concurrent argument of batch_call_llm_async.
MaxConcurrents == {1, 2}
\* Constructor arguments of the pools that batches are checked with.
BatchConfigs ==
    { [max_connections |-> 1, cache_size |-> 2, cache_ttl |-> 30,
       rate_limit |-> 2, max_retries |-> 2] }

\* ------------------------------------------------------ program constants
\* Length in seconds of the rate window (lines 153 and 157).
WindowSeconds == 60
\* model_config["gpt-4o-mini"]["cost_per_1k"], in units of 1e-4 dollar.
CostPer1k == 15

Calls == 1..NumCalls
Batches == 1..NumBatches

VARIABLES
    \* constructor arguments (AsyncLLMPool.__init__)
    max_connections, cache_size, cache_ttl, rate_limit, max_retries,
    \* whether __init__ returned a pool
    constructed,
    \* self.cache, in dict order: a sequence of [key, response, timestamp]
    cache,
    \* self.request_times
    request_times,
    \* self.rate_semaphore._value
    rate_semaphore,
    \* self.stats
    stats,
    \* time.time()
    now,
    \* per call: position, cache_key, start_time, the local `now` of
    \* _wait_for_rate_limit, the end of the current sleep, the loop variable
    \* attempt, the local last_error, and what the call returned or raised
    pc, cache_key, start_time, rl_now, wake_at, attempt, last_error, result,
    \* history: transport invocations per call, the times within the last 60
    \* seconds at which calls left the rate gate, count and sum of the response times of the live
    \* successes, the keys passed to _cache_response since the cache was last
    \* empty by construction or clear_cache ("-" marks an expiry deletion),
    \* and the step taken last
    tries, gate_log, live_times, insert_log, last,
    \* per call suspended in or cancelled out of _wait_for_rate_limit: how
    \* many timestamps its prune removed
    rl_removed,
    \* per batch_call_llm_async invocation: its position, the calls made for
    \* its prompts, and its locals prompts, max_concurrent,
    \* concurrent_semaphore._value, responses and successful_responses
    batch,
    \* whether os.getenv("OPENAI_API_KEY") returns a key
    api_key,
    \* the last two requests given to _get_cache_key, each with its key
    fingerprints

config == <<max_connections, cache_size, cache_ttl, rate_limit, max_retries,
            constructed>>
environment == <<api_key, fingerprints>>
locals == <<cache_key, start_time, rl_now, wake_at, attempt, last_error, result>>
vars == <<config, cache, request_times, rate_semaphore, stats, now, pc,
          locals, tries, gate_log, live_times, insert_log, last, rl_removed,
          batch, environment>>

\* ------------------------------------------------------------- rationals
RECURSIVE Gcd(_, _)
Gcd(a, b) == IF b = 0 THEN a ELSE Gcd(b, a % b)

\* A non-negative rational in lowest terms, as [num, den].
Rat(n, d) == LET g == Gcd(n, d) IN [num |-> n \div g, den |-> d \div g]

RatEq(r, n, d) == r.num * d = n * r.den

RECURSIVE Pow2(_)
Pow2(n) == IF n = 0 THEN 1 ELSE 2 * Pow2(n - 1)

\* ------------------------------------------------------------ data types
NoResult == [kind |-> "none"]
\* last_error = None (line 198), and the exception that attempt a of call c
\* raised (line 231).
NoError == <<>>
AttemptError(c, a) == <<c, a>>
\* request_times[0] of an empty list (line 157).
IndexError == <<"IndexError">>
\* min() of an empty sequence (lines 141-142).
ValueError == <<"ValueError">>
\* raise None (line 242 with last_error = None).
TypeError == <<"TypeError">>
\* The call raised exception e to its caller (lines 157 and 242).
Raised(e) == [kind |-> "error", error |-> e]
\* The task of the call was cancelled: CancelledError went to its caller.
Cancelled == [kind |-> "cancelled"]

LLMResponse(content, tokens, rtime, fromCache, cost) ==
    [kind |-> "response", content |-> content, model |-> "gpt-4o-mini",
     tokens_used |-> tokens, response_time |-> rtime,
     from_cache |-> fromCache, cost_estimate |-> cost]

LLMStats ==
    [total_requests |-> 0, cache_hits |-> 0, failures |-> 0,
     total_tokens |-> 0, total_cost |-> 0,
     avg_response_time |-> [num |-> 0, den |-> 1]]

\* ------------------------------------------------------------------ Init
\* A batch_call_llm_async invocation that has not been made.
NoBatch ==
    [pc |-> "idle", elems |-> <<>>, prompts |-> <<>>, max_concurrent |-> 0,
     concurrent_semaphore |-> 0, responses |-> <<>>,
     successful_responses |-> <<>>]

\* AsyncLLMPool.__init__ with arguments c (lines 46-78).  asyncio.Semaphore
\* raises ValueError for a negative value, and then there is no pool.
Construct(c) ==
    /\ max_connections = c.max_connections
    /\ cache_size = c.cache_size
    /\ cache_ttl = c.cache_ttl
    /\ rate_limit = c.rate_limit
    /\ max_retries = c.max_retries
    /\ constructed = (c.rate_limit >= 0)
    /\ rate_semaphore = IF c.rate_limit >= 0 THEN c.rate_limit ELSE 0
    /\ cache = <<>>
    /\ request_times = <<>>
    /\ stats = LLMStats
    /\ now = 0
    /\ pc = [d \in Calls |-> "idle"]
    /\ cache_key = [d \in Calls |-> "k1"]
    /\ start_time = [d \in Calls |-> 0]
    /\ rl_now = [d \in Calls |-> 0]
    /\ wake_at = [d \in Calls |-> 0]
    /\ attempt = [d \in Calls |-> 0]
    /\ last_error = [d \in Calls |-> NoError]
    /\ result = [d \in Calls |-> NoResult]
    /\ tries = [d \in Calls |-> 0]
    /\ gate_log = <<>>
    /\ live_times = [n |-> 0, sum |-> 0]
    /\ insert_log = <<>>
    /\ last = [op |-> "init", call |-> 0]
    /\ rl_removed = [d \in Calls |-> 0]
    /\ batch = [b \in Batches |-> NoBatch]
    /\ fingerprints = <<>>

Init == api_key = TRUE /\ \E c \in Configs : Construct(c)

\* ----------------------------------------------------------------- batch
\* The batch that call c is an element of (0 for a call of its own), and the
\* index of its prompt in that batch (line 303).
Owner(c) ==
    IF \E b \in Batches : \E i \in 1..Len(batch[b].elems) : batch[b].elems[i] = c
    THEN CHOOSE b \in Batches :
             \E i \in 1..Len(batch[b].elems) : batch[b].elems[i] = c
    ELSE 0
Index(c) ==
    CHOOSE i \in 1..Len(batch[Owner(c)].elems) : batch[Owner(c)].elems[i] = c

\* Mutant of Gather: outcomes are collected in the order of completion.
GatherCompletionOrder(responses, i, outcome) ==
    LET free == CHOOSE j \in 1..Len(responses) :
                    /\ responses[j] = NoResult
                    /\ \A k \in 1..(j - 1) : responses[k] # NoResult
    IN  [responses EXCEPT ![free] = outcome]

\* asyncio.gather(..., return_exceptions=True) (lines 302-305): the value or
\* the exception of the i-th awaitable becomes the i-th element of the list.
Gather(responses, i, outcome) == [responses EXCEPT ![i] = outcome]

\* async with concurrent_semaphore (line 292) entered by element c.
BatchAcquire(bt, c) ==
    IF pc[c] = "queued"
    THEN [bt EXCEPT ![Owner(c)].concurrent_semaphore = @ - 1]
    ELSE bt

\* Element c returned from or raised out of limited_call (lines 292-295): the
\* batch permit is released and gather gets the outcome.
BatchRelease(bt, c, outcome) ==
    IF Owner(c) = 0
    THEN bt
    ELSE [bt EXCEPT ![Owner(c)].concurrent_semaphore = @ + 1,
                    ![Owner(c)].responses = Gather(@, Index(c), outcome)]

\* ----------------------------------------------------------------- cache
\* Mutant of CacheIndex: only the first key of the dict is looked at.
CacheIndexFirst(ch, k) == IF ch # <<>> /\ ch[1].key = k THEN 1 ELSE 0

\* Position of key k in the dict, 0 when absent (line 118).
CacheIndex(ch, k) ==
    IF \E i \in 1..Len(ch) : ch[i].key = k
    THEN CHOOSE i \in 1..Len(ch) : ch[i].key = k
    ELSE 0

CacheKeys(ch) == {ch[i].key : i \in 1..Len(ch)}

\* del self.cache[key] (lines 134 and 143).
CacheRemove(ch, i) == [j \in 1..(Len(ch) - 1) |-> IF j < i THEN ch[j] ELSE ch[j + 1]]

\* Mutant of IsFresh: an entry whose age equals the TTL still counts as fresh.
IsFreshInclusive(entry, t) == t - entry.timestamp <= cache_ttl

\* time.time() - timestamp < self.cache_ttl (line 120).
IsFresh(entry, t) == t - entry.timestamp < cache_ttl

\* Mutant of OldestIndex: the entry stored last is the victim.
NewestIndex(ch) ==
    CHOOSE i \in 1..Len(ch) :
        \A j \in 1..Len(ch) :
            /\ ch[i].timestamp >= ch[j].timestamp
            /\ (ch[j].timestamp = ch[i].timestamp => i >= j)

\* min(self.cache.keys(), key=lambda k: self.cache[k][1]) (lines 141-142):
\* the first key in dict order among those with the least timestamp.
OldestIndex(ch) ==
    CHOOSE i \in 1..Len(ch) :
        \A j \in 1..Len(ch) :
            /\ ch[i].timestamp <= ch[j].timestamp
            /\ (ch[j].timestamp = ch[i].timestamp => i <= j)

\* Mutant of cache_response: a key the dict holds is overwritten in place,
\* without an eviction.
cache_response_in_place(ch, k, response, t) ==
    LET i == CacheIndex(ch, k)
        entry == [key |-> k, response |-> response, timestamp |-> t]
    IN  IF i # 0 THEN [ch EXCEPT ![i] = entry]
        ELSE IF Len(ch) >= cache_size
        THEN Append(CacheRemove(ch, OldestIndex(ch)), entry)
        ELSE Append(ch, entry)

\* Mutant of cache_response: the eviction test is len(cache) > cache_size.
cache_response_late_evict(ch, k, response, t) ==
    LET kept == IF Len(ch) > cache_size THEN Tail(ch) ELSE ch
        i == CacheIndex(kept, k)
        entry == [key |-> k, response |-> response, timestamp |-> t]
    IN  IF i = 0 THEN Append(kept, entry) ELSE [kept EXCEPT ![i] = entry]

\* _cache_response (lines 137-145): evict when full, then store; storing
\* under a key the dict holds keeps that key's place in the dict order.
cache_response(ch, k, response, t) ==
    LET kept == IF Len(ch) >= cache_size THEN CacheRemove(ch, OldestIndex(ch)) ELSE ch
        i == CacheIndex(kept, k)
        entry == [key |-> k, response |-> response, timestamp |-> t]
    IN  IF i = 0 THEN Append(kept, entry) ELSE [kept EXCEPT ![i] = entry]

\* ------------------------------------------------------------ statistics
\* _update_stats (lines 336-353).
update_stats(st, response, success) ==
    LET total == st.total_requests + 1
        n == total - st.cache_hits
        avg == st.avg_response_time
    IN  IF ~success
        THEN [st EXCEPT !.total_requests = total]
        ELSE [st EXCEPT
                !.total_requests = total,
                !.total_tokens = @ + response.tokens_used,
                !.total_cost = @ + response.cost_estimate,
                !.avg_response_time =
                    IF ~response.from_cache /\ n > 0
                    THEN Rat(avg.num * (n - 1) + response.response_time * avg.den,
                             avg.den * n)
                    ELSE @]

\* _calculate_cost (lines 164-169) for the model the calls use.
calculate_cost(tokens) == (tokens * CostPer1k) \div 1000

\* ------------------------------------------------------------- rate gate
\* [t for t in self.request_times if now - t < 60] (lines 152-153).
Prune(times, t) == SelectSeq(times, LAMBDA x : t - x < WindowSeconds)

\* 60 - (now - self.request_times[0]) (line 157).
SleepTime(times, t) == WindowSeconds - (t - times[1])

\* Mutant of MustSleep: the window may hold rate_limit + 1 timestamps.
MustSleepOffByOne(times, t) == Len(times) > rate_limit /\ SleepTime(times, t) > 0

\* The two conditions under which the caller sleeps (lines 156 and 158).
MustSleep(times, t) == Len(times) >= rate_limit /\ SleepTime(times, t) > 0

Step(op, c) == last' = [op |-> op, call |-> c]

\* Mutant of acquire: the transport request is sent without a permit.
acquire_without_permit(c) ==
    /\ rate_semaphore' = rate_semaphore - 1
    /\ pc' = [pc EXCEPT ![c] = "attempt"]
    /\ attempt' = [attempt EXCEPT ![c] = 0]
    /\ tries' = [tries EXCEPT ![c] = @ + 1]

\* Mutant of enter_loop: the body of the loop runs before the test.
enter_loop_do_while(c) ==
    /\ pc' = [pc EXCEPT ![c] = "attempt"]
    /\ attempt' = [attempt EXCEPT ![c] = 0]
    /\ tries' = [tries EXCEPT ![c] = @ + 1]

\* The entry of the retry loop with the permit held (lines 198-201): the
\* first transport request is sent, or, when range(self.max_retries) is
\* empty, the loop is over and the call is at line 239.
enter_loop(c) ==
    IF max_retries > 0
    THEN /\ pc' = [pc EXCEPT ![c] = "attempt"]
         /\ attempt' = [attempt EXCEPT ![c] = 0]
         /\ tries' = [tries EXCEPT ![c] = @ + 1]
    ELSE /\ pc' = [pc EXCEPT ![c] = "loop_end"]
         /\ UNCHANGED <<attempt, tries>>

\* async with self.rate_semaphore (line 196) and the entry of the retry loop
\* (lines 198-201): a free permit is taken without suspension and the first
\* transport request is sent.
acquire(c) ==
    IF rate_semaphore > 0
    THEN /\ rate_semaphore' = rate_semaphore - 1
         /\ enter_loop(c)
    ELSE /\ pc' = [pc EXCEPT ![c] = "sem_wait"]
         /\ UNCHANGED <<rate_semaphore, attempt, tries>>

\* _wait_for_rate_limit up to its await (lines 149-160), and, when it does not
\* sleep, line 162 and the code after it up to the next suspension.  With an
\* empty window and rate_limit <= 0, request_times[0] raises IndexError, which
\* leaves call_llm_async at line 193.
wait_for_rate_limit(c) ==
    LET pruned == Prune(request_times, now) IN
    IF Len(pruned) >= rate_limit /\ pruned = <<>>
    THEN /\ request_times' = pruned
         /\ pc' = [pc EXCEPT ![c] = "raised"]
         /\ result' = [result EXCEPT ![c] = Raised(IndexError)]
         /\ start_time' = [start_time EXCEPT ![c] = 0]
         /\ batch' = BatchRelease(BatchAcquire(batch, c), c, Raised(IndexError))
         /\ UNCHANGED <<rl_now, wake_at, rate_semaphore, attempt, tries,
                        gate_log, rl_removed>>
    ELSE IF MustSleep(pruned, now)
    THEN /\ request_times' = pruned
         /\ rl_now' = [rl_now EXCEPT ![c] = now]
         /\ wake_at' = [wake_at EXCEPT ![c] = now + SleepTime(pruned, now)]
         /\ pc' = [pc EXCEPT ![c] = "rate_sleep"]
         /\ rl_removed' = [rl_removed EXCEPT
                              ![c] = Len(request_times) - Len(pruned)]
         /\ start_time' = [start_time EXCEPT ![c] = now]
         /\ batch' = BatchAcquire(batch, c)
         /\ UNCHANGED <<rate_semaphore, attempt, tries, gate_log, result>>
    ELSE /\ request_times' = Append(pruned, now)
         /\ gate_log' = Append(gate_log, now)
         /\ start_time' = [start_time EXCEPT ![c] = now]
         /\ batch' = BatchAcquire(batch, c)
         /\ UNCHANGED <<rl_now, wake_at, rl_removed, result>>
         /\ acquire(c)

\* ------------------------------------------------------- call_llm_async
\* Mutant of ReturnCached: the stored response itself is returned, unmarked.
ReturnCachedUnflagged(c, response) ==
    /\ stats' = [stats EXCEPT !.cache_hits = @ + 1]
    /\ result' = [result EXCEPT ![c] = response]
    /\ pc' = [pc EXCEPT ![c] = "done"]
    /\ Step("cache_hit", c)
    /\ batch' = BatchRelease(BatchAcquire(batch, c), c, result'[c])
    /\ UNCHANGED <<cache, request_times, rate_semaphore, start_time, rl_now,
                   wake_at, attempt, last_error, tries, gate_log, insert_log,
                   rl_removed>>

\* Mutant of ReturnCached: the hit is recorded in the rate window.
ReturnCachedThroughGate(c, response) ==
    /\ stats' = [stats EXCEPT !.cache_hits = @ + 1]
    /\ result' = [result EXCEPT ![c] = [response EXCEPT !.from_cache = TRUE]]
    /\ pc' = [pc EXCEPT ![c] = "done"]
    /\ request_times' = Append(Prune(request_times, now), now)
    /\ Step("cache_hit", c)
    /\ batch' = BatchRelease(BatchAcquire(batch, c), c, result'[c])
    /\ UNCHANGED <<cache, rate_semaphore, start_time, rl_now, wake_at, attempt,
                   last_error, tries, gate_log, insert_log, rl_removed>>

\* Mutant of ReturnCached: a hit renews the timestamp of the entry.
ReturnCachedRefreshing(c, response) ==
    /\ stats' = [stats EXCEPT !.cache_hits = @ + 1]
    /\ result' = [result EXCEPT ![c] = [response EXCEPT !.from_cache = TRUE]]
    /\ pc' = [pc EXCEPT ![c] = "done"]
    /\ cache' = [cache EXCEPT ![CacheIndex(cache, cache_key'[c])].timestamp = now]
    /\ Step("cache_hit", c)
    /\ batch' = BatchRelease(BatchAcquire(batch, c), c, result'[c])
    /\ UNCHANGED <<request_times, rate_semaphore, start_time, rl_now,
                   wake_at, attempt, last_error, tries, gate_log, insert_log,
                   rl_removed>>

\* Mutant of ReturnCached: the tokens and the cost of the cached response are
\* added to the totals again.
ReturnCachedCountingTokens(c, response) ==
    /\ stats' = [stats EXCEPT !.cache_hits = @ + 1,
                              !.total_tokens = @ + response.tokens_used,
                              !.total_cost = @ + response.cost_estimate]
    /\ result' = [result EXCEPT ![c] = [response EXCEPT !.from_cache = TRUE]]
    /\ pc' = [pc EXCEPT ![c] = "done"]
    /\ Step("cache_hit", c)
    /\ batch' = BatchRelease(BatchAcquire(batch, c), c, result'[c])
    /\ UNCHANGED <<cache, request_times, rate_semaphore, start_time, rl_now,
                   wake_at, attempt, last_error, tries, gate_log, insert_log,
                   rl_removed>>

\* The cache-hit return (lines 122-131 and 188-190).
ReturnCached(c, response) ==
    /\ stats' = [stats EXCEPT !.cache_hits = @ + 1]
    /\ result' = [result EXCEPT ![c] = [response EXCEPT !.from_cache = TRUE]]
    /\ pc' = [pc EXCEPT ![c] = "done"]
    /\ Step("cache_hit", c)
    /\ batch' = BatchRelease(BatchAcquire(batch, c), c, result'[c])
    /\ UNCHANGED <<cache, request_times, rate_semaphore, start_time, rl_now,
                   wake_at, attempt, last_error, tries, gate_log, insert_log,
                   rl_removed>>

\* Mutant of CacheMiss: the lookup of an expired entry counts as a hit.
CacheMissCounted(c, i) ==
    /\ cache' = IF i # 0 THEN CacheRemove(cache, i) ELSE cache
    /\ insert_log' = IF i # 0 THEN Append(insert_log, "-") ELSE insert_log
    /\ stats' = IF i # 0 THEN [stats EXCEPT !.cache_hits = @ + 1] ELSE stats
    /\ wait_for_rate_limit(c)
    /\ Step(IF i # 0 THEN "cache_expired" ELSE "cache_miss", c)
    /\ UNCHANGED last_error

\* The cache miss (lines 132-135 and 192-201): an expired entry is deleted,
\* then the call goes to the rate gate.
CacheMiss(c, i) ==
    /\ cache' = IF i # 0 THEN CacheRemove(cache, i) ELSE cache
    /\ insert_log' = IF i # 0 THEN Append(insert_log, "-") ELSE insert_log
    /\ wait_for_rate_limit(c)
    /\ Step(IF i # 0 THEN "cache_expired" ELSE "cache_miss", c)
    /\ UNCHANGED <<stats, last_error>>

\* The fingerprints an issued call may have: one an earlier call had, or the
\* first one no call had yet.
UsedKeys == {cache_key[d] : d \in {e \in Calls : pc[e] # "idle"}}
NextKeys == {KeyOrder[i] : i \in 1..Len(KeyOrder)} \cap
            (UsedKeys \cup {KeyOrder[i] : i \in {j \in 1..Len(KeyOrder) :
                                                    j = Cardinality(UsedKeys) + 1}})

\* call_llm_async from its entry to its first suspension, its cache-hit
\* return or its exception (lines 178-201).
call_body(c, k) ==
    /\ cache_key' = [cache_key EXCEPT ![c] = k]
    /\ LET i == CacheIndex(cache, k) IN
       IF i # 0 /\ IsFresh(cache[i], now)
       THEN ReturnCached(c, cache[i].response)
       ELSE CacheMiss(c, i)
    /\ UNCHANGED <<config, environment, now, live_times>>

\* call_llm_async called on its own.  Calls are numbered in the order they
\* are issued.
call_llm_async(c, k) ==
    /\ constructed
    /\ pc[c] = "idle"
    /\ \A d \in Calls : d < c => pc[d] # "idle"
    /\ k \in NextKeys
    /\ call_body(c, k)

\* asyncio.sleep(sleep_time) of _wait_for_rate_limit returns (lines 160-162),
\* and the call goes on to the pool semaphore.
rate_wake(c) ==
    /\ pc[c] = "rate_sleep"
    /\ now >= wake_at[c]
    /\ request_times' = Append(request_times, rl_now[c])
    /\ gate_log' = Append(gate_log, now)
    /\ rl_now' = [rl_now EXCEPT ![c] = 0]
    /\ wake_at' = [wake_at EXCEPT ![c] = 0]
    /\ rl_removed' = [rl_removed EXCEPT ![c] = 0]
    /\ acquire(c)
    /\ Step("rate_wake", c)
    /\ UNCHANGED <<config, environment, cache, stats, now, cache_key, start_time, result,
                   last_error, live_times, insert_log, batch>>

\* A call waiting for the pool semaphore gets a released permit (line 196).
\* Which waiter gets it is left open: the order is the semaphore's, not the
\* pool's.
sem_wake(c) ==
    /\ pc[c] = "sem_wait"
    /\ rate_semaphore > 0
    /\ rate_semaphore' = rate_semaphore - 1
    /\ enter_loop(c)
    /\ Step("sem_wake", c)
    /\ UNCHANGED <<config, environment, cache, request_times, stats, now, cache_key,
                   start_time, rl_now, wake_at, result, last_error, gate_log,
                   live_times, insert_log, rl_removed, batch>>

\* Whether _cache_response finds the dict full and empty at once (line 139
\* with cache_size <= 0), so that min() at line 141 raises ValueError.
StoreRaises == Len(cache) >= cache_size /\ cache = <<>>

\* _cache_response raised inside the try of the retry loop (line 219): the
\* ValueError is caught at line 230 like an exception of the transport, and
\* the call backs off (lines 234-237) or gives up (lines 239-242).  The
\* response is neither stored nor counted nor returned.
cache_response_raises(c) ==
    /\ IF attempt[c] < max_retries - 1
       THEN /\ pc' = [pc EXCEPT ![c] = "backoff"]
            /\ last_error' = [last_error EXCEPT ![c] = ValueError]
            /\ wake_at' = [wake_at EXCEPT ![c] = now + Pow2(attempt[c]) + (now % 1)]
            /\ Step("store_error_retry", c)
            /\ UNCHANGED <<rate_semaphore, stats, result, start_time, attempt,
                           batch>>
       ELSE /\ stats' = [stats EXCEPT !.failures = @ + 1]
            /\ rate_semaphore' = rate_semaphore + 1
            /\ result' = [result EXCEPT ![c] = Raised(ValueError)]
            /\ pc' = [pc EXCEPT ![c] = "failed"]
            /\ start_time' = [start_time EXCEPT ![c] = 0]
            /\ attempt' = [attempt EXCEPT ![c] = 0]
            /\ last_error' = [last_error EXCEPT ![c] = NoError]
            /\ batch' = BatchRelease(batch, c, Raised(ValueError))
            /\ Step("store_error_failure", c)
            /\ UNCHANGED wake_at
    /\ UNCHANGED <<cache, insert_log, live_times>>

\* The code after _make_llm_request returned (lines 205-228): the response
\* is built, cached and counted, the permit is released and the call
\* returns; or _cache_response raises.
response_returned(c, tokens) ==
    IF StoreRaises
    THEN cache_response_raises(c)
    ELSE LET response == LLMResponse(c, tokens, now - start_time[c], FALSE,
                                     calculate_cost(tokens))
         IN  /\ cache' = cache_response(cache, cache_key[c], response, now)
             /\ stats' = update_stats(stats, response, TRUE)
             /\ result' = [result EXCEPT ![c] = response]
             /\ live_times' = [n |-> live_times.n + 1,
                               sum |-> live_times.sum + response.response_time]
             /\ insert_log' = Append(insert_log, cache_key[c])
             /\ rate_semaphore' = rate_semaphore + 1
             /\ pc' = [pc EXCEPT ![c] = "done"]
             /\ start_time' = [start_time EXCEPT ![c] = 0]
             /\ attempt' = [attempt EXCEPT ![c] = 0]
             /\ last_error' = [last_error EXCEPT ![c] = NoError]
             /\ batch' = BatchRelease(batch, c, result'[c])
             /\ Step("success", c)
             /\ UNCHANGED wake_at

\* _make_llm_request returns (lines 201-228).  Without the API key it raises
\* (lines 252-254), it does not return.
attempt_succeeds(c, tokens) ==
    /\ pc[c] = "attempt"
    /\ api_key
    /\ response_returned(c, tokens)
    /\ UNCHANGED <<config, environment, request_times, now, cache_key, rl_now,
                   tries, gate_log, rl_removed>>

\* Mutant of BackoffTime: the same delay before every retry.
BackoffTimeConstant(a, t) == 1 + (t % 1)

\* 2 ** attempt + time.time() % 1 (line 236), with the clock in whole seconds.
BackoffTime(a, t) == Pow2(a) + (t % 1)

\* Mutant of MoreAttempts: the loop runs once more than max_retries.
MoreAttemptsOffByOne(a) == a < max_retries

\* Whether the loop over range(self.max_retries) has an iteration after
\* iteration a (lines 199 and 234).
MoreAttempts(a) == a < max_retries - 1

\* Mutant of RetryLater: the permit is given back for the time of the sleep.
RetryLaterReleases(c) ==
    /\ pc' = [pc EXCEPT ![c] = "backoff"]
    /\ last_error' = [last_error EXCEPT ![c] = AttemptError(c, attempt[c])]
    /\ wake_at' = [wake_at EXCEPT ![c] = now + BackoffTime(attempt[c], now)]
    /\ rate_semaphore' = rate_semaphore + 1
    /\ Step("retry", c)
    /\ UNCHANGED <<cache, stats, result, start_time, attempt, insert_log,
                   batch>>

\* The exception is kept and the call backs off (lines 231-237).
RetryLater(c) ==
    /\ pc' = [pc EXCEPT ![c] = "backoff"]
    /\ last_error' = [last_error EXCEPT ![c] = AttemptError(c, attempt[c])]
    /\ wake_at' = [wake_at EXCEPT ![c] = now + BackoffTime(attempt[c], now)]
    /\ Step("retry", c)
    /\ UNCHANGED <<cache, rate_semaphore, stats, result, start_time, attempt,
                   insert_log, batch>>

\* Mutant of GiveUp: the permit is not given back when the call raises.
GiveUpKeepsPermit(c) ==
    /\ stats' = [stats EXCEPT !.failures = @ + 1]
    /\ result' = [result EXCEPT ![c] = Raised(AttemptError(c, attempt[c]))]
    /\ pc' = [pc EXCEPT ![c] = "failed"]
    /\ start_time' = [start_time EXCEPT ![c] = 0]
    /\ attempt' = [attempt EXCEPT ![c] = 0]
    /\ last_error' = [last_error EXCEPT ![c] = NoError]
    /\ batch' = BatchRelease(batch, c, result'[c])
    /\ Step("failure", c)
    /\ UNCHANGED <<cache, rate_semaphore, wake_at, insert_log>>

\* Mutant of GiveUp: the failure is stored in the cache like a response.
GiveUpCaching(c) ==
    /\ stats' = [stats EXCEPT !.failures = @ + 1]
    /\ rate_semaphore' = rate_semaphore + 1
    /\ result' = [result EXCEPT ![c] = Raised(AttemptError(c, attempt[c]))]
    /\ pc' = [pc EXCEPT ![c] = "failed"]
    /\ start_time' = [start_time EXCEPT ![c] = 0]
    /\ attempt' = [attempt EXCEPT ![c] = 0]
    /\ last_error' = [last_error EXCEPT ![c] = NoError]
    /\ cache' = cache_response(cache, cache_key[c],
                               LLMResponse(c, 0, 0, FALSE, 0), now)
    /\ insert_log' = Append(insert_log, cache_key[c])
    /\ batch' = BatchRelease(batch, c, result'[c])
    /\ Step("failure", c)
    /\ UNCHANGED wake_at

\* The last attempt failed (lines 239-242): the failure is counted, the permit
\* released on leaving the async with, and last_error raised.
GiveUp(c) ==
    /\ stats' = [stats EXCEPT !.failures = @ + 1]
    /\ rate_semaphore' = rate_semaphore + 1
    /\ result' = [result EXCEPT ![c] = Raised(AttemptError(c, attempt[c]))]
    /\ pc' = [pc EXCEPT ![c] = "failed"]
    /\ start_time' = [start_time EXCEPT ![c] = 0]
    /\ attempt' = [attempt EXCEPT ![c] = 0]
    /\ last_error' = [last_error EXCEPT ![c] = NoError]
    /\ batch' = BatchRelease(batch, c, result'[c])
    /\ Step("failure", c)
    /\ UNCHANGED <<cache, wake_at, insert_log>>

\* _make_llm_request raises (lines 230-242): back off and retry, or, after
\* the last attempt, count the failure, release the permit and raise.
attempt_fails(c) ==
    /\ pc[c] = "attempt"
    /\ IF MoreAttempts(attempt[c]) THEN RetryLater(c) ELSE GiveUp(c)
    /\ UNCHANGED <<config, environment, request_times, now, cache_key, rl_now, tries,
                   gate_log, live_times, rl_removed>>

\* Mutant of backoff_wake: a retry records a timestamp like an admission.
backoff_wake_through_gate(c) ==
    /\ pc[c] = "backoff"
    /\ now >= wake_at[c]
    /\ pc' = [pc EXCEPT ![c] = "attempt"]
    /\ attempt' = [attempt EXCEPT ![c] = @ + 1]
    /\ tries' = [tries EXCEPT ![c] = @ + 1]
    /\ wake_at' = [wake_at EXCEPT ![c] = 0]
    /\ request_times' = Append(request_times, now)
    /\ Step("backoff_wake", c)
    /\ UNCHANGED <<config, environment, cache, rate_semaphore, stats, now,
                   cache_key, start_time, rl_now, result, last_error, gate_log,
                   live_times, insert_log, rl_removed, batch>>

\* asyncio.sleep(sleep_time) of the backoff returns (line 237) and the loop
\* sends the next transport request (lines 199-201).
backoff_wake(c) ==
    /\ pc[c] = "backoff"
    /\ now >= wake_at[c]
    /\ pc' = [pc EXCEPT ![c] = "attempt"]
    /\ attempt' = [attempt EXCEPT ![c] = @ + 1]
    /\ tries' = [tries EXCEPT ![c] = @ + 1]
    /\ wake_at' = [wake_at EXCEPT ![c] = 0]
    /\ Step("backoff_wake", c)
    /\ UNCHANGED <<config, environment, cache, request_times, rate_semaphore, stats, now,
                   cache_key, start_time, rl_now, result, last_error, gate_log,
                   live_times, insert_log, rl_removed, batch>>

\* Mutant of clear_cache: the rate window is emptied with the cache.
clear_cache_and_window ==
    /\ constructed
    /\ cache # <<>>
    /\ cache' = <<>>
    /\ insert_log' = <<>>
    /\ request_times' = <<>>
    /\ Step("clear_cache", 0)
    /\ UNCHANGED <<config, environment, rate_semaphore, stats, now, pc,
                   locals, tries, gate_log, live_times, rl_removed, batch>>

\* clear_cache (lines 373-376).
clear_cache ==
    /\ constructed
    /\ cache # <<>>
    /\ cache' = <<>>
    /\ insert_log' = <<>>
    /\ Step("clear_cache", 0)
    /\ UNCHANGED <<config, environment, request_times, rate_semaphore, stats, now, pc,
                   locals, tries, gate_log, live_times, rl_removed, batch>>

\* time.time() advances.
Tick(d) ==
    /\ now + d <= MaxTime
    /\ now' = now + d
    /\ gate_log' = SelectSeq(gate_log, LAMBDA t : now + d - t < WindowSeconds)
    /\ Step("tick", 0)
    /\ UNCHANGED <<config, environment, cache, request_times, rate_semaphore, stats, pc,
                   locals, tries, live_times, insert_log, rl_removed, batch>>

Next ==
    \/ \E c \in Calls, k \in Keys : call_llm_async(c, k)
    \/ \E c \in Calls : rate_wake(c)
    \/ \E c \in Calls : sem_wake(c)
    \/ \E c \in Calls, tokens \in Tokens : attempt_succeeds(c, tokens)
    \/ \E c \in Calls : attempt_fails(c)
    \/ \E c \in Calls : backoff_wake(c)
    \/ clear_cache
    \/ \E d \in TickSteps : Tick(d)

Spec == Init /\ [][Next]_vars

TypeOK ==
    /\ constructed => rate_semaphore \in 0..rate_limit
    /\ now \in 0..MaxTime
    /\ pc \in [Calls -> {"idle", "queued", "rate_sleep", "sem_wait", "attempt",
                         "backoff", "done", "failed", "raised", "cancelled",
                         "loop_end"}]
    /\ \A b \in Batches :
          batch[b].concurrent_semaphore \in 0..batch[b].max_concurrent
    /\ \A i \in 1..Len(cache) : cache[i].key \in Keys

\* ---------------------------------------------------------- cancellation
\* The task of a call is cancelled while the call holds no permit: at
\* asyncio.sleep of _wait_for_rate_limit (line 160), before line 162, or in
\* the acquire of async with self.rate_semaphore (line 196).  CancelledError
\* goes to the caller.
cancel_waiting(c) ==
    /\ pc[c] \in {"rate_sleep", "sem_wait"}
    /\ Owner(c) = 0
    /\ pc' = [pc EXCEPT ![c] = "cancelled"]
    /\ result' = [result EXCEPT ![c] = Cancelled]
    /\ rl_now' = [rl_now EXCEPT ![c] = 0]
    /\ wake_at' = [wake_at EXCEPT ![c] = 0]
    /\ start_time' = [start_time EXCEPT ![c] = 0]
    /\ Step(IF pc[c] = "rate_sleep" THEN "cancel_rate_sleep"
                                    ELSE "cancel_sem_wait", c)
    /\ UNCHANGED <<config, environment, cache, request_times, rate_semaphore, stats, now,
                   cache_key, attempt, last_error, tries, gate_log, live_times,
                   insert_log, rl_removed, batch>>

\* Mutant of cancel_holding: CancelledError is handled like the exception of
\* a last attempt.
cancel_holding_counted(c) ==
    /\ pc[c] \in {"attempt", "backoff"}
    /\ Owner(c) = 0
    /\ pc' = [pc EXCEPT ![c] = "cancelled"]
    /\ result' = [result EXCEPT ![c] = Cancelled]
    /\ stats' = [stats EXCEPT !.failures = @ + 1]
    /\ rate_semaphore' = rate_semaphore + 1
    /\ wake_at' = [wake_at EXCEPT ![c] = 0]
    /\ start_time' = [start_time EXCEPT ![c] = 0]
    /\ attempt' = [attempt EXCEPT ![c] = 0]
    /\ last_error' = [last_error EXCEPT ![c] = NoError]
    /\ Step(IF pc[c] = "attempt" THEN "cancel_attempt" ELSE "cancel_backoff", c)
    /\ UNCHANGED <<config, environment, cache, request_times, now, cache_key, rl_now,
                   tries, gate_log, live_times, insert_log, rl_removed, batch>>

\* The task of a call is cancelled while the call holds a permit: at the
\* await of _make_llm_request (line 201) or at asyncio.sleep of the backoff
\* (line 237).  CancelledError is not an Exception, so line 230 does not catch
\* it; it leaves the async with of line 196, which releases the permit.
cancel_holding(c) ==
    /\ pc[c] \in {"attempt", "backoff"}
    /\ Owner(c) = 0
    /\ pc' = [pc EXCEPT ![c] = "cancelled"]
    /\ result' = [result EXCEPT ![c] = Cancelled]
    /\ rate_semaphore' = rate_semaphore + 1
    /\ wake_at' = [wake_at EXCEPT ![c] = 0]
    /\ start_time' = [start_time EXCEPT ![c] = 0]
    /\ attempt' = [attempt EXCEPT ![c] = 0]
    /\ last_error' = [last_error EXCEPT ![c] = NoError]
    /\ Step(IF pc[c] = "attempt" THEN "cancel_attempt" ELSE "cancel_backoff", c)
    /\ UNCHANGED <<config, environment, cache, request_times, stats, now, cache_key, rl_now,
                   tries, gate_log, live_times, insert_log, rl_removed, batch>>

CancelNext ==
    \/ Next
    \/ \E c \in Calls : cancel_waiting(c)
    \/ \E c \in Calls : cancel_holding(c)

\* The pool with calls that their callers may cancel.
CancelSpec == Init /\ [][CancelNext]_vars

\* ---------------------------------------------------------- construction
\* The pool constructed with any arguments, those of BadConfigs included.
ConfigInit == api_key = TRUE /\ \E c \in Configs \cup BadConfigs : Construct(c)

ConfigSpec == ConfigInit /\ [][Next]_vars

\* The pool in an environment with or without OPENAI_API_KEY.
CredentialInit == api_key \in BOOLEAN /\ \E c \in Configs : Construct(c)

CredentialSpec == CredentialInit /\ [][Next]_vars

\* A pool that makes three attempts, so that a call backs off twice.
RetryConfigs ==
    {[max_connections |-> 1, cache_size |-> 2, cache_ttl |-> 30,
      rate_limit |-> 2, max_retries |-> 3]}

RetryInit == api_key = TRUE /\ \E c \in RetryConfigs : Construct(c)

RetrySpec == RetryInit /\ [][Next]_vars

\* A pool whose entries live for two clock steps, so that an entry can be
\* read between its insertion and its expiry.
TtlConfigs ==
    {[max_connections |-> 1, cache_size |-> 2, cache_ttl |-> 60,
      rate_limit |-> 2, max_retries |-> 2]}

TtlInit == api_key = TRUE /\ \E c \in TtlConfigs : Construct(c)

TtlSpec == TtlInit /\ [][Next]_vars

\* Pools with and without room in the cache.
ZeroCacheConfigs ==
    {[max_connections |-> 1, cache_size |-> 0, cache_ttl |-> 30,
      rate_limit |-> 2, max_retries |-> 2]}

CacheSizeInit ==
    api_key = TRUE /\ \E c \in Configs \cup ZeroCacheConfigs : Construct(c)

CacheSizeSpec == CacheSizeInit /\ [][Next]_vars

\* Pools with and without attempts.
NoRetryConfigs ==
    {[max_connections |-> 1, cache_size |-> 2, cache_ttl |-> 30,
      rate_limit |-> 2, max_retries |-> 0]}

NoRetryInit ==
    api_key = TRUE /\ \E c \in Configs \cup NoRetryConfigs : Construct(c)

\* The code after a loop that made no attempt (lines 239-242): the failure is
\* counted and raise None raises TypeError, which releases the permit.
loop_exhausted(c) ==
    /\ pc[c] = "loop_end"
    /\ stats' = [stats EXCEPT !.failures = @ + 1]
    /\ rate_semaphore' = rate_semaphore + 1
    /\ result' = [result EXCEPT ![c] = Raised(TypeError)]
    /\ pc' = [pc EXCEPT ![c] = "failed"]
    /\ start_time' = [start_time EXCEPT ![c] = 0]
    /\ batch' = BatchRelease(batch, c, result'[c])
    /\ Step("no_attempt", c)
    /\ UNCHANGED <<config, environment, cache, request_times, now, cache_key,
                   rl_now, wake_at, attempt, last_error, tries, gate_log,
                   live_times, insert_log, rl_removed>>

\* There is no suspension between taking the permit and line 242: a call at
\* line 239 runs on before any other task does.
AtLoopEnd == {c \in Calls : pc[c] = "loop_end"}

NoRetryNext ==
    \/ AtLoopEnd = {} /\ Next
    \/ \E c \in AtLoopEnd : loop_exhausted(c)

NoRetrySpec == NoRetryInit /\ [][NoRetryNext]_vars

\* ------------------------------------------------- batch_call_llm_async
\* The calls not issued yet.
IdleCalls == {c \in Calls : pc[c] = "idle"}

\* Prompt lists of length n: each fingerprint is one an earlier call or
\* prompt had, or the first one none had yet.
RECURSIVE PromptLists(_, _)
PromptLists(n, used) ==
    IF n = 0
    THEN {<<>>}
    ELSE LET fresh == {KeyOrder[i] : i \in {j \in 1..Len(KeyOrder) :
                                               j = Cardinality(used) + 1}}
         IN  UNION {{<<k>> \o ps : ps \in PromptLists(n - 1, used \cup {k})} :
                    k \in used \cup fresh}

\* Mutant of Degrade: an exception stays in the list as it is.
DegradeKeepsException(response) == response

\* The loop body of lines 311-324: an exception becomes a placeholder
\* response, a response is kept.
Degrade(response) ==
    IF response.kind = "error"
    THEN LLMResponse(<<"failed", response.error>>, 0, 0, FALSE, 0)
    ELSE response

\* batch_call_llm_async up to its await of gather (lines 285-305): an empty
\* list returns at once, otherwise a semaphore is made and one task per
\* prompt is created.
batch_call_llm_async(b, prompts, max_concurrent) ==
    /\ constructed
    /\ batch[b].pc = "idle"
    /\ \A a \in Batches : a < b => batch[a].pc # "idle"
    /\ Len(prompts) <= Cardinality(IdleCalls)
    /\ LET first == NumCalls - Cardinality(IdleCalls)
           elems == [i \in 1..Len(prompts) |-> first + i]
       IN  /\ batch' = [batch EXCEPT ![b] =
                 IF prompts = <<>>
                 THEN [NoBatch EXCEPT !.pc = "returned"]
                 ELSE [pc |-> "running", elems |-> elems, prompts |-> prompts,
                       max_concurrent |-> max_concurrent,
                       concurrent_semaphore |-> max_concurrent,
                       responses |-> [i \in 1..Len(prompts) |-> NoResult],
                       successful_responses |-> <<>>]]
           /\ pc' = [c \in Calls |->
                       IF c \in {elems[i] : i \in 1..Len(prompts)}
                       THEN "queued" ELSE pc[c]]
           /\ cache_key' = [c \in Calls |->
                       IF c \in {elems[i] : i \in 1..Len(prompts)}
                       THEN prompts[c - first] ELSE cache_key[c]]
    /\ Step("batch", 0)
    /\ UNCHANGED <<config, environment, cache, request_times, rate_semaphore, stats, now,
                   start_time, rl_now, wake_at, attempt, last_error, result,
                   tries, gate_log, live_times, insert_log, rl_removed>>

\* Mutant of CapFree: the batch semaphore is not consulted.
CapIgnored(b) == TRUE

\* concurrent_semaphore has a free permit (line 292).
CapFree(b) == batch[b].concurrent_semaphore > 0

\* limited_call (lines 291-295): the tasks reach the semaphore in the order
\* of their prompts and the semaphore admits them in that order; an admitted
\* task runs call_llm_async.
limited_call(c) ==
    /\ pc[c] = "queued"
    /\ CapFree(Owner(c))
    /\ \A d \in Calls : (Owner(d) = Owner(c) /\ d < c) => pc[d] # "queued"
    /\ call_body(c, cache_key[c])

\* gather returns and the loop of lines 308-330 builds the returned list.
batch_return(b) ==
    /\ batch[b].pc = "running"
    /\ \A i \in 1..Len(batch[b].responses) : batch[b].responses[i] # NoResult
    /\ batch' = [batch EXCEPT
                    ![b].pc = "returned",
                    ![b].successful_responses =
                        [i \in 1..Len(batch[b].responses) |->
                            Degrade(batch[b].responses[i])]]
    /\ Step("batch_return", 0)
    /\ UNCHANGED <<config, environment, cache, request_times, rate_semaphore, stats, now,
                   pc, locals, tries, gate_log, live_times, insert_log,
                   rl_removed>>

BatchNext ==
    \/ \E c \in Calls : rate_wake(c)
    \/ \E c \in Calls : sem_wake(c)
    \/ \E c \in Calls, tokens \in Tokens : attempt_succeeds(c, tokens)
    \/ \E c \in Calls : attempt_fails(c)
    \/ \E c \in Calls : backoff_wake(c)
    \/ \E d \in TickSteps : Tick(d)
    \/ \E b \in {a \in Batches : batch[a].pc = "idle"} :
          \E n \in 0..Cardinality(IdleCalls), m \in MaxConcurrents :
              \E prompts \in PromptLists(n, UsedKeys) :
                  batch_call_llm_async(b, prompts, m)
    \/ \E c \in Calls : limited_call(c)
    \/ \E b \in Batches : batch_return(b)

BatchInit == api_key = TRUE /\ \E c \in BatchConfigs : Construct(c)

\* The pool with all its calls made through batches.
BatchSpec == BatchInit /\ [][BatchNext]_vars

\* ---------------------------------------------------------------- progress
\* Calls that sleep until a time that has not come.
Sleepers ==
    {c \in Calls : pc[c] \in {"rate_sleep", "backoff"} /\ wake_at[c] > now}

\* time.time() advances while a call sleeps, past MaxTime too: every sleep
\* comes to its end.  Time that passes while no call sleeps is left out.
LiveTick(d) ==
    /\ Sleepers # {}
    /\ now' = now + d
    /\ gate_log' = SelectSeq(gate_log, LAMBDA t : now + d - t < WindowSeconds)
    /\ Step("tick", 0)
    /\ UNCHANGED <<config, environment, cache, request_times, rate_semaphore,
                   stats, pc, locals, tries, live_times, insert_log,
                   rl_removed, batch>>

\* The least value of max_concurrent: no two calls of a batch run at once.
LiveConcurrents == {m \in MaxConcurrents : \A n \in MaxConcurrents : m <= n}

\* Calls of their own and batches on one pool.  A call of its own has a
\* fingerprint no call had; the prompts of a batch may repeat one.
LiveNext ==
    \/ \E c \in Calls, k \in Keys \ UsedKeys : call_llm_async(c, k)
    \/ \E c \in Calls : rate_wake(c)
    \/ \E c \in Calls : sem_wake(c)
    \/ \E c \in Calls, tokens \in Tokens : attempt_succeeds(c, tokens)
    \/ \E c \in Calls : attempt_fails(c)
    \/ \E c \in Calls : backoff_wake(c)
    \/ \E d \in TickSteps : LiveTick(d)
    \/ \E b \in {a \in Batches : batch[a].pc = "idle"} :
          \E n \in 1..Cardinality(IdleCalls), m \in LiveConcurrents :
              \E prompts \in PromptLists(n, UsedKeys) :
                  batch_call_llm_async(b, prompts, m)
    \/ \E c \in Calls : limited_call(c)
    \/ \E b \in Batches : batch_return(b)

\* The event loop runs every task that can run, the clock advances, and
\* every transport request returns or raises.
Fairness ==
    /\ \A c \in Calls :
           /\ WF_vars(limited_call(c))
           /\ WF_vars(rate_wake(c))
           /\ WF_vars(sem_wake(c))
           /\ WF_vars(backoff_wake(c))
           /\ WF_vars((\E tokens \in Tokens : attempt_succeeds(c, tokens))
                      \/ attempt_fails(c))
    /\ \A b \in Batches : WF_vars(batch_return(b))
    /\ WF_vars(\E d \in TickSteps : LiveTick(d))

\* A pool with one permit and one retry.
LiveConfigs ==
    {[max_connections |-> 1, cache_size |-> 1, cache_ttl |-> 30,
      rate_limit |-> 1, max_retries |-> 2]}

LiveInit == api_key = TRUE /\ \E c \in LiveConfigs : Construct(c)

LiveSafetySpec == LiveInit /\ [][LiveNext]_vars

LiveSpec == LiveSafetySpec /\ Fairness

\* ------------------------------------------------------- _get_cache_key
\* The requests given to call_llm_async: a value is written as its JSON text,
\* kwargs is the list of extra keyword arguments in the order they were
\* passed, no name twice.
Prompts == {"p1"}
Models == {"gpt-4o-mini"}
MaxTokens == {"3000"}
Temperatures == {"0.7"}
OptionValues == [stream |-> {"true"}, user |-> {"u1"},
                 system |-> {"s1", "s2"}, top_p |-> {"0.9"}]
OptionNames == DOMAIN OptionValues
Options == {<<n, v>> : n \in OptionNames, v \in UNION {OptionValues[m] : m \in OptionNames}}
           \cap UNION {{<<n, v>> : v \in OptionValues[n]} : n \in OptionNames}
KwargsLists ==
    {kw \in UNION {[1..n -> Options] : n \in 0..Cardinality(OptionNames)} :
        \A i, j \in 1..Len(kw) : kw[i][1] = kw[j][1] => i = j}
Requests == [prompt : Prompts, model : Models, max_tokens : MaxTokens,
             temperature : Temperatures, kwargs : KwargsLists]

\* The order of the keys of cache_data as strings.
NameOrder == <<"max_tokens", "model", "prompt", "stream", "system",
               "temperature", "top_p", "user">>

\* A dict that keeps the order of insertion is written in that order.
KeepOrder(data) == data

\* json.dumps(cache_data, sort_keys=True) (line 113): the items of the dict
\* in the order of their keys.
SortKeys(data) ==
    LET RECURSIVE From(_)
        From(i) == IF i > Len(NameOrder) THEN <<>>
                   ELSE SelectSeq(data, LAMBDA item : item[1] = NameOrder[i])
                        \o From(i + 1)
    IN  From(1)

\* hashlib.md5(...).hexdigest() (line 114): equal strings have equal digests.
Md5(str) == [md5 |-> str]

\* _get_cache_key(prompt, model, **kwargs) (lines 101-114).
get_cache_key(prompt, model, kwargs) ==
    LET cache_params == SelectSeq(kwargs, LAMBDA item : item[1] \notin {"stream", "user"})
        cache_data == <<<<"prompt", prompt>>, <<"model", model>>>> \o cache_params
        cache_str == SortKeys(cache_data)
    IN  Md5(cache_str)

\* The call of _get_cache_key in call_llm_async (lines 181-184): max_tokens
\* and temperature are passed as keyword arguments before the extra ones.
RequestKey(request) ==
    get_cache_key(request.prompt, request.model,
                  <<<<"max_tokens", request.max_tokens>>,
                    <<"temperature", request.temperature>>>> \o request.kwargs)

\* A request has its key computed.
KeyOf(request) ==
    /\ fingerprints' = (IF fingerprints = <<>> THEN <<>>
                        ELSE <<fingerprints[Len(fingerprints)]>>)
                       \o <<[request |-> request, key |-> RequestKey(request)]>>
    /\ UNCHANGED <<config, api_key, cache, request_times, rate_semaphore, stats,
                   now, pc, locals, tries, gate_log, live_times, insert_log,
                   last, rl_removed, batch>>

KeyNext == \E request \in Requests : KeyOf(request)

KeyInit == api_key = TRUE /\ \E c \in BatchConfigs : Construct(c)

KeySpec == KeyInit /\ [][KeyNext]_vars

\* ------------------------------------------------------------ the claims
FromCache(r) == r.kind = "response" /\ r.from_cache
Holders == {c \in Calls : pc[c] \in {"attempt", "backoff"}}
Issued(c) == pc[c] = "idle" /\ pc'[c] # "idle"
NoDuplicates(s) == \A i, j \in 1..Len(s) : s[i] = s[j] => i = j

\* C1: within any interval of 60 seconds at most rate_limit calls leave the
\* rate gate.
C1_AtMostRateLimitPerWindow ==
    \A i \in 1..Len(gate_log) :
        Cardinality({j \in 1..Len(gate_log) :
                        /\ gate_log[i] <= gate_log[j]
                        /\ gate_log[j] - gate_log[i] < WindowSeconds}) <= rate_limit

\* C2: at most max_connections calls are inside the attempt section (hold a
\* pool slot) at the same time, whatever rate_limit is.
C2_HoldersWithinMaxConnections == Cardinality(Holders) <= max_connections

\* C3: a call served from the cache adds one to total_requests and one to
\* cache_hits.
C3_CacheHitCountsAsRequest ==
    [][\A c \in Calls :
          (result[c] = NoResult /\ FromCache(result'[c])) =>
              /\ stats'.cache_hits = stats.cache_hits + 1
              /\ stats'.total_requests = stats.total_requests + 1]_vars

\* C4: avg_response_time is the arithmetic mean of the response times of the
\* calls that succeeded without the cache.
C4_AverageIsMeanOfLiveTimes ==
    live_times.n > 0 => RatEq(stats.avg_response_time, live_times.sum, live_times.n)

\* C5: a call that ends in terminal failure adds one to failures and one to
\* total_requests.
C5_FailureCountsAsRequest ==
    [][\A c \in Calls :
          (pc[c] = "attempt" /\ pc'[c] = "failed") =>
              /\ stats'.failures = stats.failures + 1
              /\ stats'.total_requests = stats.total_requests + 1]_vars

\* C6: a call that is served from the cache returns in the step it was issued
\* in (it never suspends), and that step leaves the rate window and the pool
\* semaphore unchanged and makes no transport attempt.
C6_CacheHitBypassesGateAndPool ==
    [][\A c \in Calls :
          (result[c] = NoResult /\ FromCache(result'[c])) =>
              /\ pc[c] = "idle" /\ pc'[c] = "done"
              /\ request_times' = request_times
              /\ rate_semaphore' = rate_semaphore
              /\ gate_log' = gate_log
              /\ tries' = tries /\ tries[c] = 0]_vars

\* C6 witness: a call has just been served from the cache while the pruned
\* rate window is full and the semaphore has no free permit.
C6_Witness ==
    /\ last.op = "cache_hit"
    /\ FromCache(result[last.call])
    /\ rate_semaphore = 0
    /\ Len(Prune(request_times, now)) >= rate_limit

\* C7: a caller that wakes from the rate limiter's sleep proceeds only if the
\* window, pruned at wake time, holds fewer than rate_limit timestamps.
C7_WakeReevaluatesWindow ==
    [][\A c \in Calls :
          (pc[c] = "rate_sleep" /\ pc'[c] # "rate_sleep") =>
              Len(Prune(request_times, now)) < rate_limit]_vars

\* C8: the cache never holds more than cache_size entries.
C8_CacheWithinCapacity == Len(cache) <= cache_size

\* C8 witness: an insert has just happened into a cache that was at capacity,
\* by a call whose fingerprint another call in flight shares.
C8_Witness ==
    /\ last.op = "success"
    /\ Len(cache) = cache_size
    /\ Len(insert_log) > cache_size
    /\ \E d \in Calls \ {last.call} :
          /\ cache_key[d] = cache_key[last.call]
          /\ pc[d] \in {"attempt", "backoff", "sem_wait", "rate_sleep"}

\* C9: an insert into a cache at capacity evicts exactly one entry, one whose
\* insertion timestamp no other entry's precedes; and after capacity + 1
\* inserts of distinct keys into an empty cache, with no expiry deletion, the
\* cache holds capacity entries: all the keys but the first inserted.
C9_EvictsOldest ==
    \A c \in Calls :
        (pc[c] = "attempt" /\ pc'[c] = "done" /\ Len(cache) >= cache_size) =>
            \E i \in 1..Len(cache) :
                /\ \A j \in 1..Len(cache) : cache[i].timestamp <= cache[j].timestamp
                /\ CacheKeys(cache') =
                      (CacheKeys(cache) \ {cache[i].key}) \cup {cache_key[c]}
                /\ \A j \in 1..Len(cache) :
                      (j # i /\ cache[j].key # cache_key[c]) =>
                          \E m \in 1..Len(cache') : cache'[m] = cache[j]

C9_FirstInsertedMissing ==
    (/\ Len(insert_log) = cache_size + 1
     /\ NoDuplicates(insert_log)
     /\ \A i \in 1..Len(insert_log) : insert_log[i] \in Keys) =>
        /\ Len(cache) = cache_size
        /\ CacheKeys(cache) = {insert_log[i] : i \in 2..Len(insert_log)}

C10_ExpiredEntryIsAbsent ==
    [][\A c \in Calls :
          Issued(c) =>
              LET i == CacheIndex(cache, cache_key'[c]) IN
              /\ (i # 0 /\ now - cache[i].timestamp >= cache_ttl) =>
                    /\ pc'[c] \in {"rate_sleep", "sem_wait", "attempt"}
                    /\ result'[c] = NoResult
                    /\ cache_key'[c] \notin CacheKeys(cache')
                    /\ Len(cache') = Len(cache) - 1
                    /\ stats' = stats
              /\ FromCache(result'[c]) =>
                    /\ i # 0
                    /\ now - cache[i].timestamp < cache_ttl]_vars

\* C10 witness: a call has just found the entry of its fingerprint expired,
\* deleted it and gone on to the live path.
C10_Witness ==
    /\ last.op = "cache_expired"
    /\ pc[last.call] \in {"rate_sleep", "sem_wait", "attempt"}
    /\ cache_key[last.call] \notin CacheKeys(cache)
    /\ \E d \in Calls \ {last.call} :
          /\ cache_key[d] = cache_key[last.call]
          /\ result[d].kind = "response"
          /\ ~result[d].from_cache

\* C11: a response served from the cache has from_cache = true and otherwise
\* equals the response of the live call that created the entry; a lookup
\* leaves the cache as it is and every stored response has from_cache = false;
\* a response of a live attempt has from_cache = false.
C11_StoredResponsesAreLive ==
    \A i \in 1..Len(cache) :
        /\ cache[i].response.from_cache = FALSE
        /\ cache[i].response = result[cache[i].response.content]
        /\ cache_key[cache[i].response.content] = cache[i].key

C11_ReturnedResponses ==
    \A c \in Calls :
        result[c].kind = "response" =>
            IF result[c].from_cache
            THEN LET d == result[c].content IN
                 /\ d # c
                 /\ cache_key[d] = cache_key[c]
                 /\ result[d].kind = "response"
                 /\ result[d].from_cache = FALSE
                 /\ result[c] = [result[d] EXCEPT !.from_cache = TRUE]
            ELSE result[c].content = c /\ tries[c] >= 1

C11_LookupLeavesCache ==
    \A c \in Calls :
        (result[c] = NoResult /\ FromCache(result'[c])) => cache' = cache

C11_CachedCopyOfLiveResponse ==
    /\ []C11_StoredResponsesAreLive
    /\ []C11_ReturnedResponses
    /\ [][C11_LookupLeavesCache]_vars

\* C11 witness: a call has just been served a copy of a response whose
\* response_time is not 0, and the entry is still stored.
C11_Witness ==
    /\ last.op = "cache_hit"
    /\ FromCache(result[last.call])
    /\ result[last.call].response_time > 0
    /\ \E i \in 1..Len(cache) :
          /\ cache[i].key = cache_key[last.call]
          /\ cache[i].response = [result[last.call] EXCEPT !.from_cache = FALSE]

\* C12: with max_retries >= 1, a call invokes the transport at most
\* max_retries times; a call that raised invoked it exactly max_retries times
\* and raised the exception of its last attempt; a call that returns from
\* attempt number i (counted from 1) invoked it exactly i times; a call that
\* has returned or raised invokes it no more.
C12_TriesBounded ==
    \A c \in Calls :
        /\ tries[c] <= max_retries
        /\ pc[c] = "failed" =>
              /\ tries[c] = max_retries
              /\ result[c] = Raised(AttemptError(c, max_retries - 1))

C12_TriesAtReturn ==
    \A c \in Calls :
        /\ (pc[c] = "attempt" /\ pc'[c] = "done") => tries'[c] = attempt[c] + 1
        /\ pc[c] \in {"done", "failed"} => tries'[c] = tries[c]

C12_ExactlyMaxRetriesAttempts == []C12_TriesBounded /\ [][C12_TriesAtReturn]_vars

\* C12 witness: a call has just raised after more than one attempt.
C12_Witness ==
    /\ last.op = "failure"
    /\ pc[last.call] = "failed"
    /\ max_retries >= 2
    /\ tries[last.call] = max_retries

\* C13: every cache entry was created by a call of that fingerprint whose
\* attempt succeeded; a terminal failure leaves the cache unchanged; a call
\* issued after a call of the same fingerprint failed, no call of that
\* fingerprint having succeeded, misses the cache and goes on to the live path.
C13_EntriesFromSuccesses ==
    \A i \in 1..Len(cache) :
        \E d \in Calls :
            /\ cache_key[d] = cache[i].key
            /\ pc[d] = "done"
            /\ result[d].kind = "response"
            /\ result[d].from_cache = FALSE

C13_FailureLeavesCache ==
    \A c \in Calls :
        /\ (pc[c] = "attempt" /\ pc'[c] = "failed") => cache' = cache
        /\ (/\ Issued(c)
            /\ \E d \in Calls : pc[d] = "failed" /\ cache_key[d] = cache_key'[c]
            /\ \A d \in Calls :
                  (pc[d] # "idle" /\ cache_key[d] = cache_key'[c]) =>
                      result[d].kind # "response") =>
              /\ pc'[c] \in {"rate_sleep", "sem_wait", "attempt"}
              /\ result'[c] = NoResult

C13_FailuresNeverCached == []C13_EntriesFromSuccesses /\ [][C13_FailureLeavesCache]_vars

\* C13 witness: a call whose fingerprint only failed so far has just missed
\* the cache and sent its own transport request.
C13_Witness ==
    /\ last.op = "cache_miss"
    /\ pc[last.call] = "attempt"
    /\ \E d \in Calls \ {last.call} :
          pc[d] = "failed" /\ cache_key[d] = cache_key[last.call]
    /\ \A d \in Calls :
          cache_key[d] = cache_key[last.call] => result[d].kind # "response"

\* Batch helpers: the calls of batch b inside the single-call path, and
\* whether r is what the caller of the batch gets for the outcome of call c.
InPath(b) ==
    {c \in Calls : Owner(c) = b /\
                   pc[c] \in {"rate_sleep", "sem_wait", "attempt", "backoff"}}
OutcomeOf(c, r) ==
    IF result[c].kind = "response"
    THEN r = result[c]
    ELSE r.kind = "response" /\ r.content = <<"failed", result[c].error>>

\* C14: the list a batch returns has the length of its prompt list, and its
\* element i is the outcome of the call made for prompt i, whatever the order
\* in which the calls completed; before that, slot i of gather holds nothing
\* or the outcome of that call.
C14_BatchPreservesOrder ==
    \A b \in Batches :
        /\ batch[b].pc = "running" =>
              \A i \in 1..Len(batch[b].responses) :
                  \/ batch[b].responses[i] = NoResult
                  \/ batch[b].responses[i] = result[batch[b].elems[i]]
        /\ batch[b].pc = "returned" =>
              /\ Len(batch[b].successful_responses) = Len(batch[b].prompts)
              /\ \A i \in 1..Len(batch[b].prompts) :
                    /\ cache_key[batch[b].elems[i]] = batch[b].prompts[i]
                    /\ OutcomeOf(batch[b].elems[i],
                                 batch[b].successful_responses[i])

\* C14 witness: a batch has returned whose second call succeeded before its
\* first call did.
C14_Witness ==
    \E b \in Batches :
        /\ batch[b].pc = "returned"
        /\ Len(batch[b].prompts) >= 2
        /\ batch[b].prompts[1] # batch[b].prompts[2]
        /\ insert_log # <<>>
        /\ insert_log[1] = batch[b].prompts[2]
        /\ batch[b].successful_responses[1] = result[batch[b].elems[1]]
        /\ batch[b].successful_responses[1].from_cache = FALSE
        /\ batch[b].successful_responses[2].content = batch[b].elems[2]

\* C15: in a returned batch the index of a call that raised holds a
\* placeholder response with tokens_used = 0 and from_cache = false, and
\* every other index holds the response of its own call; the step in which
\* an element fails changes no other call and leaves the batch running.
C15_PlaceholderAtFailedIndex ==
    \A b \in Batches :
        batch[b].pc = "returned" =>
            \A i \in 1..Len(batch[b].elems) :
                LET c == batch[b].elems[i]
                    r == batch[b].successful_responses[i]
                IN  /\ pc[c] \in {"done", "failed", "raised"}
                    /\ pc[c] = "done" => r = result[c]
                    /\ pc[c] # "done" =>
                          /\ r.kind = "response"
                          /\ r.tokens_used = 0
                          /\ r.from_cache = FALSE

C15_FailureLeavesOthers ==
    \A c \in Calls :
        (Owner(c) # 0 /\ pc[c] # "failed" /\ pc'[c] = "failed") =>
            /\ \A d \in Calls \ {c} : pc'[d] = pc[d] /\ result'[d] = result[d]
            /\ batch'[Owner(c)].pc = "running"
            /\ \A i \in 1..Len(batch[Owner(c)].elems) :
                  i # Index(c) =>
                      batch'[Owner(c)].responses[i] = batch[Owner(c)].responses[i]

C15_BatchFailureIsolation ==
    []C15_PlaceholderAtFailedIndex /\ [][C15_FailureLeavesOthers]_vars

\* C15 witness: a returned batch with a placeholder at one index and the
\* live response of its own call at another.
C15_Witness ==
    \E b \in Batches :
        /\ batch[b].pc = "returned"
        /\ \E i, j \in 1..Len(batch[b].elems) :
              /\ pc[batch[b].elems[i]] = "failed"
              /\ batch[b].successful_responses[i].tokens_used = 0
              /\ pc[batch[b].elems[j]] = "done"
              /\ batch[b].successful_responses[j].tokens_used > 0
              /\ batch[b].successful_responses[j].content = batch[b].elems[j]

\* C16: at most max_concurrent calls of a batch are inside the single-call
\* path, each batch counting its own calls with its own semaphore, whatever
\* the pool semaphore holds.
C16_BatchCapPerBatch ==
    \A b \in Batches :
        batch[b].pc = "running" =>
            /\ Cardinality(InPath(b)) <= batch[b].max_concurrent
            /\ batch[b].concurrent_semaphore =
                   batch[b].max_concurrent - Cardinality(InPath(b))

\* C16 witness: two batches run at once, each with as many calls in the path
\* as its own cap allows, and a call of one of them waits for its batch.
C16_Witness ==
    \E a, b \in Batches :
        /\ a # b
        /\ batch[a].pc = "running" /\ batch[b].pc = "running"
        /\ batch[a].concurrent_semaphore = 0 /\ batch[b].concurrent_semaphore = 0
        /\ Cardinality(InPath(a)) = batch[a].max_concurrent
        /\ Cardinality(InPath(b)) = batch[b].max_concurrent
        /\ \E c \in Calls : Owner(c) = a /\ pc[c] = "queued"

\* C17: a cache-miss call that finds rate_limit or more timestamps in the
\* pruned window is suspended, and it stays suspended until at least 60
\* seconds after the oldest timestamp of that window; so of 2N calls issued
\* together against rate_limit = N the last N pass the gate 60 seconds or
\* more after the first was admitted.
OldestTime(times) ==
    CHOOSE t \in {times[j] : j \in 1..Len(times)} :
        \A k \in 1..Len(times) : t <= times[k]

C17_SuspendedAtFullWindow ==
    \A c \in Calls :
        /\ (/\ Issued(c)
            /\ ~FromCache(result'[c])
            /\ Len(Prune(request_times, now)) >= rate_limit) =>
              /\ pc'[c] = "rate_sleep"
              /\ request_times' = Prune(request_times, now)
              /\ wake_at'[c] >= OldestTime(request_times') + WindowSeconds
        /\ pc[c] = "rate_sleep" =>
              \/ pc'[c] = "rate_sleep" /\ wake_at'[c] = wake_at[c]
              \/ now >= wake_at[c]

C17_SuspendedUntilWindowPasses == [][C17_SuspendedAtFullWindow]_vars

\* C17 witness: with rate_limit = 2, a third call found two timestamps in the
\* window, slept, and has just passed the gate 60 seconds after the first.
C17_Witness ==
    /\ last.op = "rate_wake"
    /\ rate_limit = 2
    /\ Len(request_times) = 3
    /\ now >= request_times[1] + WindowSeconds
    /\ pc[last.call] \in {"attempt", "sem_wait"}

\* C18: a call cancelled while suspended in the rate limiter has left
\* request_times as it was before the call entered the rate limiter: the
\* call neither recorded a timestamp nor removed one.
C18_CancelLeavesWindowAsBeforeEntry ==
    last.op = "cancel_rate_sleep" => rl_removed[last.call] = 0

\* What holds of the steps of such a call: the cancellation leaves
\* request_times unchanged and nothing is recorded for the call; its entry
\* removes the timestamps 60 seconds old or older, and it removes any only
\* from a window that held more than rate_limit timestamps.
C18_CancelStep ==
    \A c \in Calls :
        /\ (pc[c] = "rate_sleep" /\ pc'[c] = "cancelled") =>
              /\ request_times' = request_times
              /\ gate_log' = gate_log
        /\ (Issued(c) /\ pc'[c] = "rate_sleep") =>
              /\ request_times' =
                    SelectSeq(request_times, LAMBDA t : now - t < WindowSeconds)
              /\ rl_removed'[c] = Len(request_times) - Len(request_times')
              /\ rl_removed'[c] > 0 => Len(request_times) > rate_limit
        /\ pc[c] = "cancelled" => pc'[c] = "cancelled"

C18_CancelRecordsNoTimestamp == [][C18_CancelStep]_vars

\* A call whose entry removed an old timestamp has just been cancelled in its
\* sleep.
C18_Witness ==
    /\ last.op = "cancel_rate_sleep"
    /\ pc[last.call] = "cancelled"
    /\ rl_removed[last.call] > 0

\* C19: a call cancelled during a transport attempt or a backoff releases its
\* permit, changes no counter of the statistics and stores nothing in the
\* cache, and it does nothing after that; every permit taken is held by a
\* call in an attempt or a backoff.
C19_CancelHolderStep ==
    \A c \in Calls :
        /\ (pc[c] \in {"attempt", "backoff"} /\ pc'[c] = "cancelled") =>
              /\ rate_semaphore' = rate_semaphore + 1
              /\ stats' = stats
              /\ cache' = cache
              /\ insert_log' = insert_log
              /\ live_times' = live_times
        /\ pc[c] = "cancelled" => (pc'[c] = "cancelled" /\ tries'[c] = tries[c])

C19_PermitsAccounted == rate_semaphore + Cardinality(Holders) = rate_limit

C19_CancelReleasesSlot == [][C19_CancelHolderStep]_vars /\ []C19_PermitsAccounted

\* C19 witness: a call has just been cancelled in its backoff, and the
\* permit it held is free again.
C19_Witness ==
    /\ last.op = "cancel_backoff"
    /\ pc[last.call] = "cancelled"
    /\ tries[last.call] >= 1
    /\ rate_semaphore = rate_limit
    /\ stats.failures = 0

\* C20: a pool whose rate_limit is 0 or negative is not constructed, and no
\* call of such a pool gets as far as the rate limiter.
C20_NonPositiveRateLimitRejected ==
    rate_limit <= 0 => (~constructed /\ \A c \in Calls : pc[c] = "idle")

\* C21: without the API credential no call reaches the retry loop: no
\* transport attempt is made, no failure is counted, no timestamp enters the
\* rate window and no permit is taken.
C21_MissingCredentialStopsAtStartup ==
    ~api_key =>
        /\ \A c \in Calls : tries[c] = 0 /\ pc[c] \notin {"attempt", "backoff"}
        /\ stats.failures = 0
        /\ request_times = <<>>
        /\ rate_semaphore = rate_limit

\* C22: the successful live call of a fingerprint leaves an entry for it; an
\* entry goes only by clear_cache, by a lookup at an age of cache_ttl or more,
\* or by the eviction of an insertion into the full cache; and a call issued
\* while its fingerprint has an entry younger than cache_ttl returns that
\* entry's response from the cache without any transport attempt.
C22_CacheStep ==
    /\ \A c \in Calls :
        /\ (pc[c] = "attempt" /\ pc'[c] = "done") =>
              \E i \in 1..Len(cache') :
                  /\ cache'[i].key = cache_key[c]
                  /\ cache'[i].response = result'[c]
                  /\ cache'[i].timestamp = now
        /\ (/\ Issued(c)
            /\ \E i \in 1..Len(cache) :
                  /\ cache[i].key = cache_key'[c]
                  /\ now - cache[i].timestamp < cache_ttl) =>
              /\ pc'[c] = "done"
              /\ tries'[c] = 0
              /\ \E i \in 1..Len(cache) :
                    /\ cache[i].key = cache_key'[c]
                    /\ result'[c] = [cache[i].response EXCEPT !.from_cache = TRUE]
    /\ \A i \in 1..Len(cache) :
          (\A j \in 1..Len(cache') : cache'[j].key # cache[i].key) =>
              \/ last'.op = "clear_cache"
              \/ /\ last'.op = "cache_expired"
                 /\ cache_key'[last'.call] = cache[i].key
                 /\ now - cache[i].timestamp >= cache_ttl
              \/ last'.op = "success" /\ Len(cache) >= cache_size

C22_EquivalentRequestsShareEntry == [][C22_CacheStep]_vars

\* C22 witness: a call has just been served the response of a call that was
\* not the first issued with that fingerprint.
C22_Witness ==
    /\ last.op = "cache_hit"
    /\ FromCache(result[last.call])
    /\ tries[last.call] = 0
    /\ \E e \in Calls :
          /\ e < result[last.call].content
          /\ cache_key[e] = cache_key[last.call]

\* C24: cache_hits is the number of calls that returned a response with
\* from_cache = true; an expired lookup, a miss and a failure leave it as it
\* is.
C24_HitsAreCachedReturns ==
    stats.cache_hits = Cardinality({c \in Calls : FromCache(result[c])})

C24_OnlyHitsCount ==
    last'.op \in {"cache_expired", "cache_miss", "failure", "retry"} =>
        stats'.cache_hits = stats.cache_hits

C24_CacheHitsCounted == []C24_HitsAreCachedReturns /\ [][C24_OnlyHitsCount]_vars

\* C24 witness: after one hit a lookup has just found an expired entry.
C24_Witness ==
    /\ last.op = "cache_expired"
    /\ stats.cache_hits = 1
    /\ Cardinality({c \in Calls : FromCache(result[c])}) = 1

\* C25: a call moves only along idle -> done (hit), idle -> gate -> slot ->
\* attempt <-> backoff, attempt -> done or failed; it leaves the gate in the
\* step that records it there, sends a transport request only on getting or
\* while holding a permit, and once done or failed takes no step at all.
AllowedMoves ==
    { <<"idle", "done">>, <<"idle", "rate_sleep">>, <<"idle", "sem_wait">>,
      <<"idle", "attempt">>, <<"rate_sleep", "sem_wait">>,
      <<"rate_sleep", "attempt">>, <<"sem_wait", "attempt">>,
      <<"attempt", "backoff">>, <<"backoff", "attempt">>,
      <<"attempt", "done">>, <<"attempt", "failed">> }

C25_Step ==
    \A c \in Calls :
        /\ pc'[c] # pc[c] => <<pc[c], pc'[c]>> \in AllowedMoves
        /\ (pc[c] = "idle" /\ pc'[c] = "done") <=>
              (result[c] = NoResult /\ FromCache(result'[c]))
        /\ (pc[c] \in {"idle", "rate_sleep"} /\ pc'[c] \in {"sem_wait", "attempt"}) =>
              /\ gate_log' = Append(gate_log, now)
              /\ Len(request_times') >= 1
        /\ (pc[c] \notin {"attempt", "backoff"} /\ pc'[c] = "attempt") =>
              /\ rate_semaphore > 0
              /\ rate_semaphore' = rate_semaphore - 1
        /\ tries'[c] # tries[c] =>
              /\ tries'[c] = tries[c] + 1
              /\ pc[c] # "attempt" /\ pc'[c] = "attempt"
              /\ result'[c] = NoResult
              /\ Cardinality(Holders') <= rate_limit
        /\ (pc[c] # "attempt" /\ pc'[c] = "attempt") => tries'[c] = tries[c] + 1
        /\ pc[c] \in {"done", "failed"} =>
              /\ pc'[c] = pc[c]
              /\ result'[c] = result[c]
              /\ tries'[c] = tries[c]
              /\ last'.call # c

C25_PerCallStateMachine == [][C25_Step]_vars

\* C25 witness: a call has just returned the response of its second attempt.
C25_Witness ==
    /\ last.op = "success"
    /\ pc[last.call] = "done"
    /\ tries[last.call] = 2
    /\ result[last.call].from_cache = FALSE

\* C26: request_times is ordered oldest first in every reachable state.
C26_WindowOrdered ==
    \A i, j \in 1..Len(request_times) :
        i < j => request_times[i] <= request_times[j]

\* C27: the response_time of a live response is the duration of the attempt
\* that succeeded: an attempt that was sent in the step before, at the
\* present time, and returns now gives response_time = 0.
C27_AttemptDuration ==
    \A c \in Calls :
        (/\ last.call = c
         /\ last.op \in {"cache_miss", "cache_expired", "rate_wake", "sem_wake",
                         "backoff_wake"}
         /\ pc[c] = "attempt"
         /\ pc'[c] = "done") =>
            result'[c].response_time = 0

C27_ResponseTimeIsAttemptDuration == [][C27_AttemptDuration]_vars

\* C28: clear_cache empties the cache and changes neither the statistics nor
\* the rate window nor any call; a call issued to the empty cache misses and
\* goes to the gate; a call in flight still stores its response when it
\* succeeds.
C28_ClearStep ==
    /\ last'.op = "clear_cache" =>
          /\ cache' = <<>>
          /\ stats' = stats
          /\ request_times' = request_times
          /\ rate_semaphore' = rate_semaphore
          /\ pc' = pc
          /\ result' = result
    /\ \A c \in Calls :
          /\ (Issued(c) /\ cache = <<>>) =>
                /\ ~FromCache(result'[c])
                /\ pc'[c] \in {"rate_sleep", "sem_wait", "attempt"}
          /\ (pc[c] = "attempt" /\ pc'[c] = "done") =>
                \E i \in 1..Len(cache') :
                    cache'[i].key = cache_key[c] /\ cache'[i].response = result'[c]

C28_ClearCacheOnlyDropsEntries == [][C28_ClearStep]_vars

\* C28 witness: a fingerprint that a live call had stored has, after
\* clear_cache, just missed the cache and sent its own transport request.
C28_Witness ==
    /\ last.op = "cache_miss"
    /\ pc[last.call] = "attempt"
    /\ cache = <<>>
    /\ insert_log = <<>>
    /\ \E d \in Calls \ {last.call} :
          /\ pc[d] = "done"
          /\ result[d].from_cache = FALSE
          /\ cache_key[d] = cache_key[last.call]

\* C29: the free permits and the calls in an attempt or a backoff add up to
\* the initial value of the semaphore; a call keeps its permit from attempt
\* to backoff and back, and gives it back in the step in which it returns,
\* raises or is cancelled.
C29_PermitsBalance ==
    /\ rate_semaphore >= 0
    /\ rate_semaphore = rate_limit - Cardinality(Holders)
    /\ (\A c \in Calls : pc[c] \in {"idle", "done", "failed", "cancelled"}) =>
          rate_semaphore = rate_limit

C29_HolderStep ==
    \A c \in Holders :
        \/ pc'[c] \in {"attempt", "backoff"}
        \/ /\ pc'[c] \in {"done", "failed", "cancelled"}
           /\ rate_semaphore' = rate_semaphore + 1

C29_SlotReleasedOnEveryExit == []C29_PermitsBalance /\ [][C29_HolderStep]_vars

\* C29 witness: one call has returned, one has raised after a backoff, one
\* was cancelled after its attempt began, and every permit is free.
C29_Witness ==
    /\ rate_semaphore = rate_limit
    /\ \E c, d, e \in Calls :
          /\ pc[c] = "done" /\ result[c].from_cache = FALSE
          /\ pc[d] = "failed" /\ tries[d] = 2
          /\ pc[e] = "cancelled" /\ tries[e] >= 1

\* C23: the cache key is a function of prompt, model, max_tokens, temperature
\* and the extra options other than 'stream' and 'user': two requests that
\* agree on these have the same key, whether or not 'stream' or 'user' is
\* given and in whatever order the options are passed.
C23_Fields(request) ==
    [prompt |-> request.prompt, model |-> request.model,
     max_tokens |-> request.max_tokens, temperature |-> request.temperature,
     options |-> {request.kwargs[i] : i \in {j \in 1..Len(request.kwargs) :
                      request.kwargs[j][1] \notin {"stream", "user"}}}]
C23_KeyIsFunctionOfFields ==
    \A i, j \in 1..Len(fingerprints) :
        C23_Fields(fingerprints[i].request) = C23_Fields(fingerprints[j].request)
            => fingerprints[i].key = fingerprints[j].key
C23_Witness ==
    /\ Len(fingerprints) = 2
    /\ fingerprints[1].key = fingerprints[2].key
    /\ LET kw1 == fingerprints[1].request.kwargs
           kw2 == fingerprints[2].request.kwargs
       IN  /\ \E i \in 1..Len(kw1) : kw1[i][1] = "stream"
           /\ \E i \in 1..Len(kw1) : kw1[i][1] = "user"
           /\ \A i \in 1..Len(kw2) : kw2[i][1] \notin {"stream", "user"}
           /\ \E i, j \in 1..Len(kw1), k, l \in 1..Len(kw2) :
                  /\ i < j /\ l < k
                  /\ kw1[i] = kw2[k] /\ kw1[j] = kw2[l]

\* C30 as stated: between failed attempt i and the next attempt the call is
\* suspended for at least 2^i and less than 2^i + 1 seconds; the last
\* permitted attempt and a success are followed by no backoff.
C30_BackoffStart(c) ==
    CHOOSE s \in 0..now : s + BackoffTime(attempt[c], s) = wake_at[c]
C30_NoOtherBackoff(c) ==
    /\ pc'[c] = "backoff" /\ pc[c] # "backoff"
           => pc[c] = "attempt" /\ attempt[c] < max_retries - 1
    /\ pc[c] \in {"done", "failed"} => pc'[c] = pc[c]
C30_SuspendedStep ==
    \A c \in Calls :
        /\ pc[c] = "backoff" /\ pc'[c] = "attempt"
               => /\ now - C30_BackoffStart(c) >= Pow2(attempt[c])
                  /\ now - C30_BackoffStart(c) < Pow2(attempt[c]) + 1
        /\ C30_NoOtherBackoff(c)
C30_SuspendedWithinASecond == [][C30_SuspendedStep]_vars

\* C30 as the code has it: after failed attempt i that is not the last one
\* the call asks for a sleep of at least 2^i and less than 2^i + 1 seconds
\* and makes attempt i + 1 no earlier than the end of that sleep; the last
\* permitted attempt and a success are followed by no backoff.
C30_BackoffStep ==
    \A c \in Calls :
        /\ pc'[c] = "backoff" /\ pc[c] # "backoff"
               => /\ wake_at'[c] - now >= Pow2(attempt[c])
                  /\ wake_at'[c] - now < Pow2(attempt[c]) + 1
        /\ pc[c] = "backoff" /\ pc'[c] = "backoff"
               => wake_at'[c] = wake_at[c] /\ attempt'[c] = attempt[c]
        /\ pc[c] = "backoff" /\ pc'[c] # "backoff"
               => /\ pc'[c] = "attempt"
                  /\ attempt'[c] = attempt[c] + 1
                  /\ now >= wake_at[c]
                  /\ now - C30_BackoffStart(c) >= Pow2(attempt[c])
        /\ C30_NoOtherBackoff(c)
C30_ExponentialBackoff == [][C30_BackoffStep]_vars
C30_Witness ==
    /\ last.op = "backoff_wake"
    /\ attempt[last.call] = 2
    /\ now > 0

\* C31: a cache hit leaves the cache as it is.  The timestamp of an entry is
\* the time of the success that stored it, so an entry that is read still
\* expires cache_ttl after its insertion and is still the victim of an
\* eviction when its insertion is the oldest.
C31_Entry(ch, k) == ch[CacheIndex(ch, k)]
C31_HitStep ==
    /\ last'.op = "cache_hit" => cache' = cache
    /\ \A k \in CacheKeys(cache') :
           \/ /\ k \in CacheKeys(cache)
              /\ C31_Entry(cache', k).timestamp = C31_Entry(cache, k).timestamp
           \/ /\ last'.op = "success"
              /\ cache_key[last'.call] = k
              /\ C31_Entry(cache', k).timestamp = now
    /\ \A c \in Calls :
           /\ pc[c] = "idle" /\ pc'[c] # "idle"
           /\ cache_key'[c] \in CacheKeys(cache)
           /\ now - C31_Entry(cache, cache_key'[c]).timestamp >= cache_ttl
           => /\ last'.op = "cache_expired"
              /\ cache_key'[c] \notin CacheKeys(cache')
    /\ \A k \in CacheKeys(cache) \ CacheKeys(cache') :
           last'.op = "success" =>
               \A j \in 1..Len(cache) :
                   C31_Entry(cache, k).timestamp <= cache[j].timestamp
C32_CountersWithinTotal ==
    /\ stats.cache_hits <= stats.total_requests
    /\ stats.failures <= stats.total_requests

\* C33: once a transport attempt of a call succeeds, the call returns that
\* attempt's response and makes no further transport attempt, for every
\* configuration including cache_size = 0.
C33_TransportReturned ==
    last'.op \in {"success", "store_error_retry", "store_error_failure"}
C33_Step ==
    \A c \in Calls :
        /\ pc[c] = "attempt" /\ last'.call = c /\ C33_TransportReturned
               => /\ pc'[c] = "done"
                  /\ result'[c].kind = "response"
                  /\ result'[c].content = c
                  /\ ~result'[c].from_cache
        /\ pc[c] = "done" => pc'[c] = "done" /\ tries'[c] = tries[c]
C33_SuccessEndsTheCall == [][C33_Step]_vars

\* C34: duplicates in flight are not coalesced.  A call that misses the cache
\* goes through the gate and the pool whatever other calls of its fingerprint
\* are in flight, records a timestamp of its own, takes a permit of its own
\* and sends a request of its own; a success stores its response over the
\* entry of its fingerprint, and with the cache at capacity it first removes
\* the oldest entry, also when its fingerprint is in the cache.
C34_InFlight(c) == pc[c] \in {"rate_sleep", "sem_wait", "attempt", "backoff"}
C34_Stored(ch, k) == ch[CacheIndex(ch, k)]
C34_Step ==
    \A c \in Calls :
        /\ /\ pc[c] = "idle" /\ pc'[c] # "idle"
           /\ \/ cache_key'[c] \notin CacheKeys(cache)
              \/ ~IsFresh(C34_Stored(cache, cache_key'[c]), now)
           => pc'[c] \in {"rate_sleep", "sem_wait", "attempt"}
        /\ pc[c] \in {"idle", "rate_sleep"} /\ pc'[c] \in {"sem_wait", "attempt"}
           => Len(request_times') =
                  1 + Len(IF pc[c] = "idle" THEN Prune(request_times, now)
                          ELSE request_times)
        /\ pc[c] \in {"idle", "rate_sleep", "sem_wait"} /\ pc'[c] = "attempt"
           => /\ rate_semaphore' = rate_semaphore - 1
              /\ tries'[c] = tries[c] + 1
        /\ last'.op = "success" /\ last'.call = c
           => /\ tries[c] >= 1
              /\ C34_Stored(cache', cache_key[c]) =
                     [key |-> cache_key[c], response |-> result'[c],
                      timestamp |-> now]
              /\ result'[c].content = c
              /\ Len(cache) >= cache_size
                 => LET victim == cache[OldestIndex(cache)] IN
                    /\ victim.key # cache_key[c]
                           => victim.key \notin CacheKeys(cache')
                    /\ Len(cache') =
                           IF cache_key[c] \in CacheKeys(cache) \ {victim.key}
                           THEN Len(cache) - 1 ELSE Len(cache)
C34_NoCoalescing == [][C34_Step]_vars
C34_Witness ==
    /\ last.op = "success"
    /\ cache_size = 2
    /\ Len(insert_log) = 3
    /\ "-" \notin {insert_log[i] : i \in 1..Len(insert_log)}
    /\ \E d \in Calls \ {last.call} :
           /\ cache_key[d] = cache_key[last.call]
           /\ result[d].kind = "response"
           /\ ~result[d].from_cache
           /\ d > last.call
    /\ C34_Stored(cache, cache_key[last.call]).response.content = last.call
    /\ \E f \in Calls : cache_key[f] \notin CacheKeys(cache)

\* C35: a call that leaves the rate gate appends exactly one timestamp to
\* request_times, before its first attempt; from then on it appends none and
\* does not come back to the gate, so the transport attempts of the admitted
\* calls number at most max_retries for each admission, and that many can
\* fall into one window.
C35_Admitted ==
    {c \in Calls :
        \/ pc[c] \in {"sem_wait", "attempt", "backoff", "failed"}
        \/ pc[c] = "done" /\ ~result[c].from_cache}
RECURSIVE C35_Attempts(_)
C35_Attempts(n) == IF n = 0 THEN 0 ELSE tries[n] + C35_Attempts(n - 1)
C35_Step ==
    /\ \A c \in Calls :
        /\ pc[c] \in {"idle", "rate_sleep"} /\ pc'[c] \in {"sem_wait", "attempt"}
           => /\ \E t \in 0..now :
                     request_times' =
                         Append(IF pc[c] = "idle" THEN Prune(request_times, now)
                                ELSE request_times, t)
              /\ tries[c] = 0
        /\ pc[c] \in {"sem_wait", "attempt", "backoff", "done", "failed"}
           => pc'[c] \notin {"idle", "queued", "rate_sleep"}
    /\ last'.op \in {"sem_wake", "success", "retry", "failure", "backoff_wake"}
           => request_times' = request_times
C35_AttemptsPerAdmission ==
    C35_Attempts(NumCalls) <= max_retries * Cardinality(C35_Admitted)
C35_OneTimestampPerAdmission == [][C35_Step]_vars /\ []C35_AttemptsPerAdmission
C35_Witness ==
    /\ last.op = "backoff_wake"
    /\ now < WindowSeconds
    /\ max_retries = 2
    /\ Cardinality(C35_Admitted) = rate_limit
    /\ Len(request_times) = rate_limit
    /\ C35_Attempts(NumCalls) = max_retries * rate_limit

\* C36: total_tokens and total_cost are the sums of tokens_used and
\* cost_estimate over the calls that returned the response of a live attempt;
\* a cache hit, a terminal failure and the placeholders of a batch leave
\* both as they are.
C36_Live == {c \in Calls : pc[c] = "done" /\ ~result[c].from_cache}
RECURSIVE C36_Sum(_, _)
C36_Sum(field, n) ==
    IF n = 0 THEN 0
    ELSE (IF n \in C36_Live THEN result[n][field] ELSE 0) + C36_Sum(field, n - 1)
C36_TotalsAreSums ==
    /\ stats.total_tokens = C36_Sum("tokens_used", NumCalls)
    /\ stats.total_cost = C36_Sum("cost_estimate", NumCalls)
C36_Step ==
    last'.op \in {"cache_hit", "failure", "batch_return"}
        => /\ stats'.total_tokens = stats.total_tokens
           /\ stats'.total_cost = stats.total_cost
C36_TotalsCountLiveSuccesses == [][C36_Step]_vars /\ []C36_TotalsAreSums
C36_Witness ==
    /\ \A b \in Batches : batch[b].pc = "returned"
    /\ \E c, d, e \in Calls :
           /\ result[c].kind = "error"
           /\ batch[Owner(c)].successful_responses[Index(c)].tokens_used = 0
           /\ pc[d] = "done" /\ result[d].from_cache
           /\ e \in C36_Live
    /\ stats.total_tokens = 1000 * Cardinality(C36_Live)
    /\ stats.total_cost = calculate_cost(1000) * Cardinality(C36_Live)

\* C37: with max_retries = 0 a call that misses the cache records a timestamp
\* in the rate window and takes a permit, makes no transport attempt, adds
\* one to failures and ends in an error raised to its caller; it returns no
\* response.
C37_NoAttempts ==
    max_retries = 0 =>
        /\ \A c \in Calls :
               /\ tries[c] = 0
               /\ pc[c] \notin {"attempt", "backoff", "done"}
               /\ result[c].kind # "response"
               /\ pc[c] = "failed" <=> result[c].kind = "error"
        /\ stats.failures = Cardinality({c \in Calls : pc[c] = "failed"})
        /\ rate_semaphore = rate_limit - Cardinality(AtLoopEnd)
C37_Step ==
    max_retries = 0 =>
        \A c \in Calls :
            /\ pc[c] \in {"idle", "rate_sleep"} /\ pc'[c] \in {"sem_wait", "loop_end"}
                   => Len(request_times') =
                          1 + Len(IF pc[c] = "idle" THEN Prune(request_times, now)
                                  ELSE request_times)
            /\ pc[c] = "idle" /\ pc'[c] # "idle"
                   => pc'[c] \in {"rate_sleep", "sem_wait", "loop_end"}
            /\ pc[c] # "loop_end" /\ pc'[c] = "loop_end"
                   => rate_semaphore' = rate_semaphore - 1
            /\ pc[c] = "loop_end"
                   => /\ pc'[c] = "failed"
                      /\ stats'.failures = stats.failures + 1
                      /\ rate_semaphore' = rate_semaphore + 1
            /\ pc'[c] = "failed" => pc[c] \in {"loop_end", "failed"}
C37_ZeroRetriesFailsWithoutAttempt == [][C37_Step]_vars /\ []C37_NoAttempts
C37_Witness ==
    /\ max_retries = 0
    /\ last.op = "no_attempt"
    /\ pc[last.call] = "failed"
    /\ result[last.call] = Raised(TypeError)
    /\ stats.failures = 1
    /\ request_times # <<>>
    /\ rate_semaphore = rate_limit

\* C38: every call that was made ends by returning or raising, and every
\* batch that was started returns, with batches and calls of their own on
\* one pool.
\* A call that returned or raised and a batch that returned stay so, and
\* the calls are finitely many, so this is to say that again and again no
\* call and no batch is under way.
C38_Quiescent ==
    /\ \A c \in Calls : pc[c] \in {"idle", "done", "failed"}
    /\ \A b \in Batches : batch[b].pc # "running"
C38_Termination == []<>C38_Quiescent
C38_Witness ==
    /\ \A c \in Calls : pc[c] \in {"done", "failed"}
    /\ \A b \in Batches : batch[b].pc = "returned"
    /\ \E c \in Calls : Owner(c) = 0
    /\ now > MaxTime
    /\ stats.failures >= 1

====
